---- MODULE Spec2Model ----
(***************************************************************************)
(* Blackjack with Monte Carlo methods (rl_project/src/blackjack_module.py): *)
(* the card and hand model, the three episode loops (run_sequential,        *)
(* get_value_simple, get_value_exploring_starts) and split_filter_average.  *)
(*                                                                          *)
(* A shuffled deck is the set of cards still in it: np.random.shuffle can   *)
(* put any remaining card at the front, so the order is resolved card by    *)
(* card as the front card is taken.                                         *)
(***************************************************************************)
EXTENDS Integers, Sequences, FiniteSets, TLC

VARIABLES
    mode,                   \* which function runs
    pc,                     \* position in that function
    num_experiments,        \* argument
    player_stick,           \* argument (run_sequential, get_value_simple)
    i_exp,                  \* the episode loop's i
    deck,                   \* cards still in the deck
    hand_player,
    hand_dealer,
    card_dealer,
    dealer_value,
    player_value,
    usable_ace,
    state,                  \* the episode's list of player states
    num_hits,
    payoff,
    payoff_list,            \* run_sequential
    player_value_init,      \* get_value_simple
    usable_ace_player_init, \* get_value_simple
    value_dict,             \* get_value_simple
    value_dict_ace,         \* split_filter_average
    value_dict_no_ace,      \* split_filter_average
    policy_dict,            \* get_value_exploring_starts
    Q_dict_detailed,        \* get_value_exploring_starts
    Q_dict_average,         \* get_value_exploring_starts
    exploring_policy,       \* get_value_exploring_starts
    i_credit,               \* the credit loop's i (line 499)
    max_action1,            \* get_value_exploring_starts
    max_action2,            \* get_value_exploring_starts
    num_bandits,            \* argument (supervised_binary_bandit)
    num_plays,              \* argument (supervised_binary_bandit)
    p,                      \* argument (supervised_binary_bandit)
    eps_list,               \* argument (supervised_binary_bandit)
    arm_best,               \* supervised_binary_bandit
    opt_action,             \* supervised_binary_bandit
    eps_pos,                \* position of the loop over eps_list (line 159)
    optimal_action_flag,    \* supervised_binary_bandit
    i_bandit,               \* the bandit loop's i (line 163)
    j_play,                 \* the play loop's j (line 167)
    arm_idx,                \* supervised_binary_bandit
    q_estimated,            \* supervised_binary_bandit
    change_prob_flag        \* supervised_binary_bandit

vars == <<mode, pc, num_experiments, player_stick, i_exp, deck, hand_player,
          hand_dealer, card_dealer, dealer_value, player_value, usable_ace,
          state, num_hits, payoff, payoff_list, player_value_init,
          usable_ace_player_init, value_dict, value_dict_ace,
          value_dict_no_ace, policy_dict, Q_dict_detailed, Q_dict_average,
          exploring_policy, i_credit, max_action1, max_action2,
          num_bandits, num_plays, p, eps_list, arm_best, opt_action, eps_pos,
          optimal_action_flag, i_bandit, j_play, arm_idx, q_estimated,
          change_prob_flag>>

\* the variables of supervised_binary_bandit
bandit_vars == <<num_bandits, num_plays, p, eps_list, arm_best, opt_action,
                 eps_pos, optimal_action_flag, i_bandit, j_play, arm_idx,
                 q_estimated, change_prob_flag>>

----------------------------------------------------------------------------
(* Bounds of the model. *)

\* Episode counts tried where episodes build on one another:
\* 0 .. MaxExperiments.
MaxExperiments == 2

\* The shuffles considered put only cards of the first PoolSize ranks of
\* PoolOrder at the front of the deck.
PoolSize == 3

\* get_payoff is applied to totals in -MaxTotal .. MaxTotal.
MaxTotal == 24

\* get_hand_value is applied to hands of at most MaxHandLen cards, each a
\* card 1 .. MaxCard.
MaxHandLen == 3

MaxCard == 15

PoolOrder == <<1, 10, 5, 13, 2, 6, 11, 3, 7, 12, 4, 8, 9>>

WideRanks == {PoolOrder[j] : j \in 1..PoolSize}

\* A call for more than one episode, or with the threshold HighStick, is
\* explored with shuffles that put the aces and tens at the front of the
\* deck.
RepeatRanks == {1, 10}

\* Thresholds tried for player_stick: the main block's, and one above 22.
StickChoices == {17, 23}

\* Episode counts tried where one episode is enough.
ExperimentChoices == {-1, 0, 1}

\* A threshold no hand reaches: no card adds more than 11 to a total.
HighStick == 52 * 11

\* supervised_binary_bandit is called with 1 .. MaxBandits bandits of
\* 1 .. MaxPlays plays each.
MaxBandits == 2

MaxPlays == 2

----------------------------------------------------------------------------
(* Card and hand model. *)

NumCards == 52

NumRanks == 13

\* player_stick = 17 of the main block
MainStick == 17

RECURSIVE SumSeq(_)
SumSeq(s) == IF s = <<>> THEN 0 ELSE s[1] + SumSeq(Tail(s))

\* np.arange(1, 53), before the shuffle decides an order
get_shuffled_cards == 1..NumCards

\* np.mod(card-1, 13) + 1
standard(card) == ((card - 1) % NumRanks) + 1

\* np.mod(hand-1, 13) + 1, elementwise
get_standard_hand(hand) == [j \in 1..Len(hand) |-> standard(hand[j])]

\* np.minimum(standard_hand, 10)
Minimum10(standard_hand) ==
    [j \in 1..Len(standard_hand) |->
        IF standard_hand[j] < 10 THEN standard_hand[j] ELSE 10]

get_hand_value_two_aces(hand) ==
    LET standard_hand == get_standard_hand(hand)
        value_per_card == Minimum10(standard_hand)
        hand_value == SumSeq(value_per_card)
        aces == Cardinality({j \in 1..Len(hand) : standard_hand[j] = 1})
    IN  IF aces > 0 /\ hand_value <= 11
        THEN <<hand_value + 10 * aces, TRUE, standard_hand>>
        ELSE <<hand_value, FALSE, standard_hand>>

\* <<hand_value, usable_ace, standard_hand>>
get_hand_value(hand) ==
    LET standard_hand == get_standard_hand(hand)
        value_per_card == Minimum10(standard_hand)
        hand_value == SumSeq(value_per_card)
    IN  IF (\E j \in 1..Len(hand) : standard_hand[j] = 1) /\ hand_value <= 11
        THEN <<hand_value + 10, TRUE, standard_hand>>
        ELSE <<hand_value, FALSE, standard_hand>>

\* state = (player_value, card_dealer, usable_ace_player)
get_player_state(hand, card) ==
    LET v == get_hand_value(hand) IN <<v[1], card, v[2]>>

\* hand after np.append(hand, get_standard_hand(deck[0])), c being deck[0]
hit(hand, c) == Append(hand, standard(c))

\* The cards that may be deck[0], the deck not being empty: any card left
\* in the deck whose rank is among ranks, and once no such card is left,
\* the lowest card left. Cards of one rank are interchangeable, so the
\* lowest left stands for all of them.
FrontOf(d, ranks) ==
    LET first == {c \in d : /\ standard(c) \in ranks
                            /\ \A e \in d : e < c => standard(e) # standard(c)}
    IN  IF first # {} THEN first
        ELSE {c \in d : \A e \in d : c <= e}

get_payoff_dealer_first(pv, dv) ==
    IF dv > 21 THEN 1
    ELSE IF pv > 21 THEN -1
    ELSE IF pv < dv THEN -1
    ELSE IF pv = dv THEN 0
    ELSE 1

get_payoff(pv, dv) ==
    IF pv > 21 THEN -1
    ELSE IF pv <= 21 /\ dv > 21 THEN 1
    ELSE IF pv < dv THEN -1
    ELSE IF pv = dv THEN 0
    ELSE 1

----------------------------------------------------------------------------
(* Values of variables a function has not assigned yet. *)

NoDict == [k \in {} |-> 0]

\* the variables a call has not assigned
Blank ==
    /\ i_exp = 0
    /\ deck = {}
    /\ hand_dealer = <<>>
    /\ card_dealer = 0
    /\ usable_ace = FALSE
    /\ state = <<>>
    /\ num_hits = 0
    /\ payoff = 0
    /\ payoff_list = <<>>
    /\ player_value_init = 0
    /\ usable_ace_player_init = FALSE
    /\ value_dict = NoDict
    /\ value_dict_ace = NoDict
    /\ value_dict_no_ace = NoDict
    /\ policy_dict = NoDict
    /\ Q_dict_detailed = NoDict
    /\ Q_dict_average = NoDict
    /\ exploring_policy = 0
    /\ i_credit = 0
    /\ max_action1 = 0
    /\ max_action2 = 0

\* the variables of supervised_binary_bandit, not assigned
BlankBandit ==
    /\ num_bandits = 0
    /\ num_plays = 0
    /\ p = <<>>
    /\ eps_list = <<>>
    /\ arm_best = 0
    /\ opt_action = <<>>
    /\ eps_pos = 0
    /\ optimal_action_flag = <<>>
    /\ i_bandit = 0
    /\ j_play = 0
    /\ arm_idx = 0
    /\ q_estimated = <<>>
    /\ change_prob_flag = FALSE

----------------------------------------------------------------------------
(* get_payoff applied to a pair of totals. *)

InitPayoff ==
    \E pv \in (0 - MaxTotal)..MaxTotal, dv \in (0 - MaxTotal)..MaxTotal :
        /\ mode = "get_payoff"
        /\ pc = "call"
        /\ player_value = pv
        /\ dealer_value = dv
        /\ num_experiments = 0
        /\ player_stick = 0
        /\ hand_player = <<>>
        /\ Blank
        /\ BlankBandit

CallPayoff ==
    /\ mode = "get_payoff"
    /\ pc = "call"
    /\ payoff' = get_payoff(player_value, dealer_value)
    /\ pc' = "returned"
    /\ UNCHANGED <<bandit_vars, mode, num_experiments, player_stick, i_exp, deck,
                   hand_player, hand_dealer, card_dealer, dealer_value,
                   player_value, usable_ace, state, num_hits, payoff_list,
                   player_value_init, usable_ace_player_init, value_dict,
                   value_dict_ace, value_dict_no_ace, policy_dict,
                   Q_dict_detailed, Q_dict_average, exploring_policy,
                   i_credit, max_action1, max_action2>>

SpecPayoff == InitPayoff /\ [][CallPayoff]_vars

----------------------------------------------------------------------------
(* get_hand_value applied to a hand. *)

RECURSIVE Hands(_)
Hands(n) ==
    IF n = 0 THEN {<<>>}
    ELSE Hands(n - 1) \cup
         {Append(h, c) : h \in {g \in Hands(n - 1) : Len(g) = n - 1},
                         c \in 1..MaxCard}

InitHand ==
    \E h \in Hands(MaxHandLen) :
        /\ mode = "get_hand_value"
        /\ pc = "call"
        /\ hand_player = h
        /\ player_value = 0
        /\ dealer_value = 0
        /\ num_experiments = 0
        /\ player_stick = 0
        /\ Blank
        /\ BlankBandit

CallHandValue ==
    /\ mode = "get_hand_value"
    /\ pc = "call"
    /\ player_value' = get_hand_value(hand_player)[1]
    /\ usable_ace' = get_hand_value(hand_player)[2]
    /\ pc' = "returned"
    /\ UNCHANGED <<bandit_vars, mode, num_experiments, player_stick, i_exp, deck,
                   hand_player, hand_dealer, card_dealer, dealer_value,
                   state, num_hits, payoff, payoff_list,
                   player_value_init, usable_ace_player_init, value_dict,
                   value_dict_ace, value_dict_no_ace, policy_dict,
                   Q_dict_detailed, Q_dict_average, exploring_policy,
                   i_credit, max_action1, max_action2>>

SpecHand == InitHand /\ [][CallHandValue]_vars

----------------------------------------------------------------------------
(* Helpers shared by the three episode loops. *)

args == <<mode, num_experiments, player_stick>>

simple_vars == <<player_value_init, usable_ace_player_init, value_dict,
                 value_dict_ace, value_dict_no_ace>>

es_tables == <<policy_dict, Q_dict_detailed, Q_dict_average>>

es_scratch == <<exploring_policy, i_credit, max_action1, max_action2>>

\* <<hand_player, hand_dealer, card_dealer, deck>>, c1 .. c4 being the
\* first four cards of the shuffled deck
deal(deck_shuffled, c1, c2, c3, c4) ==
    LET hp == get_standard_hand(<<c1, c2>>)
        hd == get_standard_hand(<<c3, c4>>)
    IN  <<hp, hd, hd[1], deck_shuffled \ {c1, c2, c3, c4}>>

\* the deals of the shuffles that put cards of these ranks at the front
DealsOf(ranks) ==
    LET d0 == get_shuffled_cards
    IN  UNION {UNION {UNION {{deal(d0, c1, c2, c3, c4) :
                    c4 \in FrontOf(d0 \ {c1, c2, c3}, ranks)} :
                c3 \in FrontOf(d0 \ {c1, c2}, ranks)} :
            c2 \in FrontOf(d0 \ {c1}, ranks)} :
        c1 \in FrontOf(d0, ranks)}

WideDeals == DealsOf(WideRanks)

RepeatDeals == DealsOf(RepeatRanks)

\* the shuffles considered for the call in progress
FrontRanks ==
    IF num_experiments > 1 \/ player_stick >= HighStick
    THEN RepeatRanks ELSE WideRanks

FrontCards(d) == FrontOf(d, FrontRanks)

Deals ==
    IF num_experiments > 1 \/ player_stick >= HighStick
    THEN RepeatDeals ELSE WideDeals

Min(a, b) == IF a < b THEN a ELSE b

\* a float that is the quotient of two integers: <<numerator, denominator>>
\* in lowest terms, denominator > 0
RECURSIVE GCD(_, _)
GCD(a, b) == IF b = 0 THEN a ELSE GCD(b, a % b)

Abs(a) == IF a < 0 THEN 0 - a ELSE a

Quotient(n, d) ==
    LET g == GCD(Abs(n), d) IN <<n \div g, d \div g>>

\* the latest return in place of the mean of all of them
Mean_of_last(list) == Quotient(list[Len(list)], 1)

\* np.mean of a non-empty list of integers
Mean(list) == Quotient(SumSeq(list), Len(list))

Zero == <<0, 1>>

FloatGE(x, y) == x[1] * y[2] >= y[1] * x[2]

----------------------------------------------------------------------------
(* The calls: a function, its episode count and, for the two fixed-policy *)
(* functions, the threshold.                                              *)

Call(m, n, t) ==
    /\ mode = m
    /\ pc = "start"
    /\ num_experiments = n
    /\ player_stick = t
    /\ hand_player = <<>>
    /\ player_value = 0
    /\ dealer_value = 0
    /\ Blank
    /\ BlankBandit

\* any of the three functions, for at most one episode
Init ==
    \E m \in {"run_sequential", "get_value_simple",
              "get_value_exploring_starts"},
       n \in ExperimentChoices,
       t \in StickChoices :
        Call(m, n, IF m = "get_value_exploring_starts" THEN 0 ELSE t)

\* get_value_simple(num_experiments, player_stick) as the main block calls
\* it, for up to MaxExperiments episodes
InitSimple ==
    \E n \in 0..MaxExperiments : Call("get_value_simple", n, MainStick)

\* one episode of run_sequential or get_value_simple, with the main block's
\* threshold or with HighStick
InitDeck ==
    \E m \in {"run_sequential", "get_value_simple"},
       t \in {MainStick, HighStick} : Call(m, 1, t)

\* get_value_exploring_starts(num_experiments), for up to MaxExperiments
\* episodes
InitES ==
    \E n \in 0..MaxExperiments : Call("get_value_exploring_starts", n, 0)

----------------------------------------------------------------------------
(* run_sequential *)

SeqStart ==
    /\ mode = "run_sequential"
    /\ pc = "start"
    /\ payoff_list' = <<>>
    /\ i_exp' = 0
    /\ pc' = "loop"
    /\ UNCHANGED <<bandit_vars, args, deck, hand_player, hand_dealer, card_dealer,
                   dealer_value, player_value, usable_ace, state, num_hits,
                   payoff, simple_vars, es_tables, es_scratch>>

SeqDeal ==
    /\ mode = "run_sequential"
    /\ pc = "loop"
    /\ i_exp < num_experiments
    /\ \E d \in Deals :
        /\ hand_player' = d[1]
        /\ hand_dealer' = d[2]
        /\ card_dealer' = d[3]
        /\ deck' = d[4]
        /\ state' = <<get_player_state(d[1], d[3])>>
        /\ num_hits' = 0
        /\ dealer_value' = get_hand_value(d[2])[1]
        /\ player_value' = get_player_state(d[1], d[3])[1]
    /\ i_exp' = i_exp + 1
    /\ pc' = "player"
    /\ UNCHANGED <<bandit_vars, args, usable_ace, payoff, payoff_list, simple_vars,
                   es_tables, es_scratch>>

SeqPlayerHit ==
    /\ mode = "run_sequential"
    /\ pc = "player"
    /\ player_value < player_stick
    /\ num_hits' = num_hits + 1
    /\ IF deck = {}
       THEN /\ pc' = "index_error"
            /\ UNCHANGED <<hand_player, deck, state, player_value>>
       ELSE /\ pc' = pc
            /\ \E c \in FrontCards(deck) :
                /\ hand_player' = hit(hand_player, c)
                /\ deck' = deck \ {c}
                /\ state' =
                     Append(state,
                            get_player_state(hit(hand_player, c), card_dealer))
                /\ player_value' =
                     get_player_state(hit(hand_player, c), card_dealer)[1]
    /\ UNCHANGED <<bandit_vars, args, i_exp, hand_dealer, card_dealer, dealer_value,
                   usable_ace, payoff, payoff_list, simple_vars, es_tables,
                   es_scratch>>

SeqPlayerDone ==
    /\ mode = "run_sequential"
    /\ pc = "player"
    /\ ~(player_value < player_stick)
    /\ pc' = "dealer"
    /\ UNCHANGED <<bandit_vars, args, i_exp, deck, hand_player, hand_dealer, card_dealer,
                   dealer_value, player_value, usable_ace, state, num_hits,
                   payoff, payoff_list, simple_vars, es_tables, es_scratch>>

SeqDealerHit ==
    /\ mode = "run_sequential"
    /\ pc = "dealer"
    /\ dealer_value < Min(17, player_value)
    /\ IF deck = {}
       THEN /\ pc' = "index_error"
            /\ UNCHANGED <<hand_dealer, deck, dealer_value>>
       ELSE /\ pc' = pc
            /\ \E c \in FrontCards(deck) :
                /\ hand_dealer' = hit(hand_dealer, c)
                /\ deck' = deck \ {c}
                /\ dealer_value' = get_hand_value(hit(hand_dealer, c))[1]
    /\ UNCHANGED <<bandit_vars, args, i_exp, hand_player, card_dealer, player_value,
                   usable_ace, state, num_hits, payoff, payoff_list,
                   simple_vars, es_tables, es_scratch>>

SeqPayoff ==
    /\ mode = "run_sequential"
    /\ pc = "dealer"
    /\ ~(dealer_value < Min(17, player_value))
    /\ payoff' = get_payoff(player_value, dealer_value)
    /\ payoff_list' = Append(payoff_list,
                             get_payoff(player_value, dealer_value))
    /\ pc' = "loop"
    /\ UNCHANGED <<bandit_vars, args, i_exp, deck, hand_player, hand_dealer, card_dealer,
                   dealer_value, player_value, usable_ace, state, num_hits,
                   simple_vars, es_tables, es_scratch>>

SeqReturn ==
    /\ mode = "run_sequential"
    /\ pc = "loop"
    /\ ~(i_exp < num_experiments)
    /\ pc' = "returned"
    /\ UNCHANGED <<bandit_vars, args, i_exp, deck, hand_player, hand_dealer, card_dealer,
                   dealer_value, player_value, usable_ace, state, num_hits,
                   payoff, payoff_list, simple_vars, es_tables, es_scratch>>

----------------------------------------------------------------------------
(* get_value_simple, and split_filter_average on the table it returns *)

\* dict.setdefault(k, [])
setdefault(dict, k) ==
    IF k \in DOMAIN dict THEN dict
    ELSE [x \in DOMAIN dict \cup {k} |-> IF x = k THEN <<>> ELSE dict[x]]

SimpleStart ==
    /\ mode = "get_value_simple"
    /\ pc = "start"
    /\ value_dict' = NoDict
    /\ i_exp' = 0
    /\ pc' = "loop"
    /\ UNCHANGED <<bandit_vars, args, deck, hand_player, hand_dealer, card_dealer,
                   dealer_value, player_value, usable_ace, state, num_hits,
                   payoff, payoff_list, player_value_init,
                   usable_ace_player_init, value_dict_ace,
                   value_dict_no_ace, es_tables, es_scratch>>

SimpleDeal ==
    /\ mode = "get_value_simple"
    /\ pc = "loop"
    /\ i_exp < num_experiments
    /\ \E d \in Deals :
        LET s == get_player_state(d[1], d[3])
        IN  /\ hand_player' = d[1]
            /\ hand_dealer' = d[2]
            /\ card_dealer' = s[2]
            /\ deck' = d[4]
            /\ dealer_value' = get_hand_value(d[2])[1]
            /\ player_value_init' = s[1]
            /\ usable_ace_player_init' = s[3]
            /\ value_dict' = setdefault(value_dict, <<s[1], s[2], s[3]>>)
            /\ player_value' = s[1]
    /\ i_exp' = i_exp + 1
    /\ pc' = "player"
    /\ UNCHANGED <<bandit_vars, args, usable_ace, state, num_hits, payoff, payoff_list,
                   value_dict_ace, value_dict_no_ace, es_tables, es_scratch>>

SimplePlayerHit ==
    /\ mode = "get_value_simple"
    /\ pc = "player"
    /\ player_value < player_stick
    /\ IF deck = {}
       THEN /\ pc' = "index_error"
            /\ UNCHANGED <<hand_player, deck, player_value, card_dealer,
                           usable_ace>>
       ELSE /\ pc' = pc
            /\ \E c \in FrontCards(deck) :
                LET s == get_player_state(hit(hand_player, c), card_dealer)
                IN  /\ hand_player' = hit(hand_player, c)
                    /\ deck' = deck \ {c}
                    /\ player_value' = s[1]
                    /\ card_dealer' = s[2]
                    /\ usable_ace' = s[3]
    /\ UNCHANGED <<bandit_vars, args, i_exp, hand_dealer, dealer_value, state,
                   num_hits, payoff, payoff_list, simple_vars, es_tables,
                   es_scratch>>

SimplePlayerDone ==
    /\ mode = "get_value_simple"
    /\ pc = "player"
    /\ ~(player_value < player_stick)
    /\ pc' = "dealer"
    /\ UNCHANGED <<bandit_vars, args, i_exp, deck, hand_player, hand_dealer, card_dealer,
                   dealer_value, player_value, usable_ace, state, num_hits,
                   payoff, payoff_list, simple_vars, es_tables, es_scratch>>

SimpleDealerHit ==
    /\ mode = "get_value_simple"
    /\ pc = "dealer"
    /\ dealer_value < Min(17, player_value)
    /\ IF deck = {}
       THEN /\ pc' = "index_error"
            /\ UNCHANGED <<hand_dealer, deck, dealer_value>>
       ELSE /\ pc' = pc
            /\ \E c \in FrontCards(deck) :
                /\ hand_dealer' = hit(hand_dealer, c)
                /\ deck' = deck \ {c}
                /\ dealer_value' = get_hand_value(hit(hand_dealer, c))[1]
    /\ UNCHANGED <<bandit_vars, args, i_exp, hand_player, card_dealer, player_value,
                   usable_ace, state, num_hits, payoff, payoff_list,
                   simple_vars, es_tables, es_scratch>>

\* the return credited to the state the player ended in
SimplePayoff_final_state ==
    /\ mode = "get_value_simple"
    /\ pc = "dealer"
    /\ ~(dealer_value < Min(17, player_value))
    /\ payoff' = get_payoff(player_value, dealer_value)
    /\ value_dict' =
         [setdefault(value_dict, <<player_value, card_dealer, usable_ace>>)
            EXCEPT ![<<player_value, card_dealer, usable_ace>>] =
                Append(@, get_payoff(player_value, dealer_value))]
    /\ pc' = "loop"
    /\ UNCHANGED <<bandit_vars, args, i_exp, deck, hand_player, hand_dealer, card_dealer,
                   dealer_value, player_value, usable_ace, state, num_hits,
                   payoff_list, player_value_init, usable_ace_player_init,
                   value_dict_ace, value_dict_no_ace, es_tables, es_scratch>>

SimplePayoff ==
    /\ mode = "get_value_simple"
    /\ pc = "dealer"
    /\ ~(dealer_value < Min(17, player_value))
    /\ payoff' = get_payoff(player_value, dealer_value)
    /\ value_dict' =
         [value_dict EXCEPT
            ![<<player_value_init, card_dealer, usable_ace_player_init>>] =
                Append(@, get_payoff(player_value, dealer_value))]
    /\ pc' = "loop"
    /\ UNCHANGED <<bandit_vars, args, i_exp, deck, hand_player, hand_dealer, card_dealer,
                   dealer_value, player_value, usable_ace, state, num_hits,
                   payoff_list, player_value_init, usable_ace_player_init,
                   value_dict_ace, value_dict_no_ace, es_tables, es_scratch>>

SimpleReturn ==
    /\ mode = "get_value_simple"
    /\ pc = "loop"
    /\ ~(i_exp < num_experiments)
    /\ pc' = "returned"
    /\ UNCHANGED <<bandit_vars, args, i_exp, deck, hand_player, hand_dealer, card_dealer,
                   dealer_value, player_value, usable_ace, state, num_hits,
                   payoff, payoff_list, simple_vars, es_tables, es_scratch>>

\* the keys split_filter_average keeps for value_dict_no_ace
NoAceKeys(dict) == {k \in DOMAIN dict : k[3] = FALSE /\ k[1] > 11}

\* the keys split_filter_average keeps for value_dict_ace
AceKeys(dict) == {k \in DOMAIN dict : k[3] = TRUE}

\* value_dict_ace, value_dict_no_ace = split_filter_average(value_dict)
SplitFilterAverage ==
    /\ mode = "get_value_simple"
    /\ pc = "returned"
    /\ value_dict_ace' = [k \in AceKeys(value_dict) |-> Mean(value_dict[k])]
    /\ value_dict_no_ace' =
         [k \in NoAceKeys(value_dict) |-> Mean(value_dict[k])]
    /\ pc' = "averaged"
    /\ UNCHANGED <<bandit_vars, args, i_exp, deck, hand_player, hand_dealer, card_dealer,
                   dealer_value, player_value, usable_ace, state, num_hits,
                   payoff, payoff_list, player_value_init,
                   usable_ace_player_init, value_dict, es_tables, es_scratch>>

NextSeq ==
    \/ SeqStart
    \/ SeqDeal
    \/ SeqPlayerHit
    \/ SeqPlayerDone
    \/ SeqDealerHit
    \/ SeqPayoff
    \/ SeqReturn

NextSimple ==
    \/ SimpleStart
    \/ SimpleDeal
    \/ SimplePlayerHit
    \/ SimplePlayerDone
    \/ SimpleDealerHit
    \/ SimplePayoff
    \/ SimpleReturn
    \/ SplitFilterAverage

----------------------------------------------------------------------------
(* get_value_exploring_starts *)

\* policy keys (player_value, card_dealer, usable_ace)
States == {<<v, c, u>> : v \in 12..21, c \in 1..13, u \in {FALSE, TRUE}}

Actions == {0, 1}

\* keys of the two Q tables: ((player_value, card_dealer, usable_ace), a)
Keys == States \X Actions

\* A table of get_value_exploring_starts is held as the sequence of its
\* values, in the order the loops of lines 424-440 first set its keys.
StateSlot(s) ==
    ((s[1] - 12) * 13 + (s[2] - 1)) * 2 + (IF s[3] THEN 1 ELSE 0) + 1

KeySlot(k) == (StateSlot(k[1]) - 1) * 2 + k[2] + 1

\* policy_dict[s]
Policy(dict, s) == dict[StateSlot(s)]

\* dict[(s, a)] of a Q table
Q(dict, s, a) == dict[KeySlot(<<s, a>>)]

\* Q_check_action = {k[1]: v for k, v in Q_dict_average.iteritems()
\*                   if k[0] == key_state}
Q_check_action(average, key_state) ==
    [a \in {a \in Actions : <<key_state, a>> \in Keys} |->
        Q(average, key_state, a)]

\* the keys of a dict of small non-negative integers, in the order a dict
\* iterates them: by hash slot, which is the integer itself
RECURSIVE KeyList(_)
KeyList(keys) ==
    IF keys = {} THEN <<>>
    ELSE LET least == CHOOSE k \in keys : \A other \in keys : k <= other
         IN  <<least>> \o KeyList(keys \ {least})

\* max(Q_check_action.values())
MaxValue(values) ==
    values[CHOOSE j \in 1..Len(values) :
               \A other \in 1..Len(values) : FloatGE(values[j], values[other])]

\* list.index(x): the first position holding x
index(list, x) ==
    CHOOSE j \in 1..Len(list) :
        /\ list[j] = x
        /\ \A other \in 1..(j - 1) : list[other] # x

\* the last position holding the maximum, where the code takes the first
ArgMaxIndex_last(values) ==
    CHOOSE j \in 1..Len(values) :
        /\ values[j] = MaxValue(values)
        /\ \A other \in (j + 1)..Len(values) : values[other] # MaxValue(values)

\* list(values).index(max(values)): the position of the maximum
ArgMaxIndex(values) == index(values, MaxValue(values))

\* max_action2 (lines 512-517)
ScanMaxAction(average, key_state) ==
    LET check == Q_check_action(average, key_state)
        keys == KeyList(DOMAIN check)
        values == [j \in 1..Len(keys) |-> check[keys[j]]]
    IN  keys[ArgMaxIndex(values)]

\* max_action1 (lines 520-523)
CompareMaxAction(average, key_state) ==
    IF FloatGE(Q(average, key_state, 0), Q(average, key_state, 1))
    THEN 0 ELSE 1

ESStart ==
    /\ mode = "get_value_exploring_starts"
    /\ pc = "start"
    /\ policy_dict' = [j \in 1..Cardinality(States) |-> 0]
    /\ Q_dict_detailed' = [j \in 1..Cardinality(Keys) |-> <<>>]
    /\ Q_dict_average' = [j \in 1..Cardinality(Keys) |-> Zero]
    /\ i_exp' = 0
    /\ pc' = "loop"
    /\ UNCHANGED <<bandit_vars, args, deck, hand_player, hand_dealer, card_dealer,
                   dealer_value, player_value, usable_ace, state, num_hits,
                   payoff, payoff_list, simple_vars, es_scratch>>

ESDeal ==
    /\ mode = "get_value_exploring_starts"
    /\ pc = "loop"
    /\ i_exp < num_experiments
    /\ \E d \in Deals :
        /\ state' = <<>>
        /\ hand_player' = d[1]
        /\ hand_dealer' = d[2]
        /\ card_dealer' = d[3]
        /\ deck' = d[4]
        /\ dealer_value' = get_hand_value(d[2])[1]
        /\ player_value' = get_hand_value(d[1])[1]
        /\ usable_ace' = get_hand_value(d[1])[2]
    /\ i_exp' = i_exp + 1
    /\ pc' = "forced"
    /\ UNCHANGED <<bandit_vars, args, num_hits, payoff, payoff_list, simple_vars,
                   es_tables, es_scratch>>

\* the forced-hit loop with its bound one too high
ESForcedHit_below13 ==
    /\ mode = "get_value_exploring_starts"
    /\ pc = "forced"
    /\ player_value < 13
    /\ IF deck = {}
       THEN /\ pc' = "index_error"
            /\ UNCHANGED <<hand_player, deck, player_value, usable_ace>>
       ELSE /\ pc' = pc
            /\ \E c \in FrontCards(deck) :
                /\ hand_player' = hit(hand_player, c)
                /\ deck' = deck \ {c}
                /\ player_value' = get_hand_value(hit(hand_player, c))[1]
                /\ usable_ace' = get_hand_value(hit(hand_player, c))[2]
    /\ UNCHANGED <<bandit_vars, args, i_exp, hand_dealer, card_dealer, dealer_value,
                   state, num_hits, payoff, payoff_list, simple_vars,
                   es_tables, es_scratch>>

ESForcedHit ==
    /\ mode = "get_value_exploring_starts"
    /\ pc = "forced"
    /\ player_value < 12
    /\ IF deck = {}
       THEN /\ pc' = "index_error"
            /\ UNCHANGED <<hand_player, deck, player_value, usable_ace>>
       ELSE /\ pc' = pc
            /\ \E c \in FrontCards(deck) :
                /\ hand_player' = hit(hand_player, c)
                /\ deck' = deck \ {c}
                /\ player_value' = get_hand_value(hit(hand_player, c))[1]
                /\ usable_ace' = get_hand_value(hit(hand_player, c))[2]
    /\ UNCHANGED <<bandit_vars, args, i_exp, hand_dealer, card_dealer, dealer_value,
                   state, num_hits, payoff, payoff_list, simple_vars,
                   es_tables, es_scratch>>

\* the random first action taken but not written to the policy table
ESExploringStart_not_stored ==
    /\ mode = "get_value_exploring_starts"
    /\ pc = "forced"
    /\ ~(player_value < 12)
    /\ num_hits' = 0
    /\ state' = Append(state, get_player_state(hand_player, card_dealer))
    /\ \E choice \in Actions : exploring_policy' = choice
    /\ pc' = "player"
    /\ UNCHANGED <<bandit_vars, args, i_exp, deck, hand_player, hand_dealer, card_dealer,
                   dealer_value, player_value, usable_ace, payoff,
                   payoff_list, simple_vars, es_tables, i_credit,
                   max_action1, max_action2>>

\* policy_dict[key_policy] = np.random.choice(2)
ESExploringStart ==
    /\ mode = "get_value_exploring_starts"
    /\ pc = "forced"
    /\ ~(player_value < 12)
    /\ num_hits' = 0
    /\ state' = Append(state, get_player_state(hand_player, card_dealer))
    /\ \E choice \in Actions :
        /\ policy_dict' =
             [policy_dict EXCEPT
                ![StateSlot(get_player_state(hand_player, card_dealer))] =
                    choice]
        /\ exploring_policy' = choice
    /\ pc' = "player"
    /\ UNCHANGED <<bandit_vars, args, i_exp, deck, hand_player, hand_dealer, card_dealer,
                   dealer_value, player_value, usable_ace, payoff,
                   payoff_list, simple_vars, Q_dict_detailed, Q_dict_average,
                   i_credit, max_action1, max_action2>>

ESPlayerHit ==
    /\ mode = "get_value_exploring_starts"
    /\ pc = "player"
    /\ exploring_policy # 0 /\ player_value <= 21
    /\ num_hits' = num_hits + 1
    /\ IF deck = {}
       THEN /\ pc' = "index_error"
            /\ UNCHANGED <<hand_player, deck, player_value, card_dealer,
                           usable_ace, state, exploring_policy>>
       ELSE /\ pc' = pc
            /\ \E c \in FrontCards(deck) :
                LET s == get_player_state(hit(hand_player, c), card_dealer)
                IN  /\ hand_player' = hit(hand_player, c)
                    /\ deck' = deck \ {c}
                    /\ player_value' = s[1]
                    /\ card_dealer' = s[2]
                    /\ usable_ace' = usable_ace
                    /\ state' = Append(state, s)
                    /\ exploring_policy' =
                         IF s[1] <= 21 THEN Policy(policy_dict, s)
                         ELSE exploring_policy
    /\ UNCHANGED <<bandit_vars, args, i_exp, hand_dealer, dealer_value, payoff,
                   payoff_list, simple_vars, es_tables, i_credit,
                   max_action1, max_action2>>

ESPlayerDone ==
    /\ mode = "get_value_exploring_starts"
    /\ pc = "player"
    /\ ~(exploring_policy # 0 /\ player_value <= 21)
    /\ pc' = "dealer"
    /\ UNCHANGED <<bandit_vars, args, i_exp, deck, hand_player, hand_dealer, card_dealer,
                   dealer_value, player_value, usable_ace, state, num_hits,
                   payoff, payoff_list, simple_vars, es_tables, es_scratch>>

\* the textbook rule: the dealer hits below 17 whatever the player holds
ESDealerHit_below17 ==
    /\ mode = "get_value_exploring_starts"
    /\ pc = "dealer"
    /\ dealer_value < 17
    /\ IF deck = {}
       THEN /\ pc' = "index_error"
            /\ UNCHANGED <<hand_dealer, deck, dealer_value>>
       ELSE /\ pc' = pc
            /\ \E c \in FrontCards(deck) :
                /\ hand_dealer' = hit(hand_dealer, c)
                /\ deck' = deck \ {c}
                /\ dealer_value' = get_hand_value(hit(hand_dealer, c))[1]
    /\ UNCHANGED <<bandit_vars, args, i_exp, hand_player, card_dealer, player_value,
                   usable_ace, state, num_hits, payoff, payoff_list,
                   simple_vars, es_tables, es_scratch>>

ESDealerHit ==
    /\ mode = "get_value_exploring_starts"
    /\ pc = "dealer"
    /\ dealer_value < Min(17, player_value)
    /\ IF deck = {}
       THEN /\ pc' = "index_error"
            /\ UNCHANGED <<hand_dealer, deck, dealer_value>>
       ELSE /\ pc' = pc
            /\ \E c \in FrontCards(deck) :
                /\ hand_dealer' = hit(hand_dealer, c)
                /\ deck' = deck \ {c}
                /\ dealer_value' = get_hand_value(hit(hand_dealer, c))[1]
    /\ UNCHANGED <<bandit_vars, args, i_exp, hand_player, card_dealer, player_value,
                   usable_ace, state, num_hits, payoff, payoff_list,
                   simple_vars, es_tables, es_scratch>>

ESPayoff ==
    /\ mode = "get_value_exploring_starts"
    /\ pc = "dealer"
    /\ ~(dealer_value < Min(17, player_value))
    /\ payoff' = get_payoff(player_value, dealer_value)
    /\ i_credit' = 0
    /\ pc' = "credit"
    /\ UNCHANGED <<bandit_vars, args, i_exp, deck, hand_player, hand_dealer, card_dealer,
                   dealer_value, player_value, usable_ace, state, num_hits,
                   payoff_list, simple_vars, es_tables, exploring_policy,
                   max_action1, max_action2>>

\* the policy table left as it is
ImprovePolicy_skipped(policy, key_state, max_action) == policy

\* policy_dict[key_state] = max_action1
ImprovePolicy(policy, key_state, max_action) ==
    [policy EXCEPT ![StateSlot(key_state)] = max_action]

\* one pass of the loop of lines 499-527; state[i_credit + 1] is the
\* code's state[i]
ESCredit ==
    /\ mode = "get_value_exploring_starts"
    /\ pc = "credit"
    /\ i_credit <= num_hits
    /\ LET key_state == state[i_credit + 1]
           action == Policy(policy_dict, key_state)
           detailed == [Q_dict_detailed EXCEPT
                          ![KeySlot(<<key_state, action>>)] =
                              Append(@, payoff)]
           average == [Q_dict_average EXCEPT
                         ![KeySlot(<<key_state, action>>)] =
                             Mean(Q(detailed, key_state, action))]
           scanned == ScanMaxAction(average, key_state)
           compared == CompareMaxAction(average, key_state)
       IN  IF key_state[1] <= 21
           THEN /\ Q_dict_detailed' = detailed
                /\ Q_dict_average' = average
                /\ max_action2' = scanned
                /\ max_action1' = compared
                /\ policy_dict' =
                     IF scanned = compared
                     THEN ImprovePolicy(policy_dict, key_state, compared)
                     ELSE policy_dict
                /\ pc' = IF scanned # compared THEN "assertion_error"
                         ELSE IF i_credit = num_hits THEN "loop"
                         ELSE "credit"
                /\ i_credit' = IF scanned = compared /\ i_credit < num_hits
                               THEN i_credit + 1 ELSE i_credit
           ELSE /\ pc' = IF i_credit = num_hits THEN "loop" ELSE "credit"
                /\ i_credit' = IF i_credit < num_hits
                               THEN i_credit + 1 ELSE i_credit
                /\ UNCHANGED <<es_tables, max_action1, max_action2>>
    /\ UNCHANGED <<bandit_vars, args, i_exp, deck, hand_player, hand_dealer, card_dealer,
                   dealer_value, player_value, usable_ace, state, num_hits,
                   payoff, payoff_list, simple_vars, exploring_policy>>

ESReturn ==
    /\ mode = "get_value_exploring_starts"
    /\ pc = "loop"
    /\ ~(i_exp < num_experiments)
    /\ pc' = "returned"
    /\ UNCHANGED <<bandit_vars, args, i_exp, deck, hand_player, hand_dealer, card_dealer,
                   dealer_value, player_value, usable_ace, state, num_hits,
                   payoff, payoff_list, simple_vars, es_tables, es_scratch>>

NextES ==
    \/ ESStart
    \/ ESDeal
    \/ ESForcedHit
    \/ ESExploringStart
    \/ ESPlayerHit
    \/ ESPlayerDone
    \/ ESDealerHit
    \/ ESPayoff
    \/ ESCredit
    \/ ESReturn

NextDeck == NextSeq \/ NextSimple

Next == NextSeq \/ NextSimple \/ NextES

SpecDeck == InitDeck /\ [][NextDeck]_vars

SpecSimple == InitSimple /\ [][NextSimple]_vars

SpecES == InitES /\ [][NextES]_vars

Spec == Init /\ [][Next]_vars

----------------------------------------------------------------------------
(* supervised_binary_bandit (rl_project/src/eval_feed_module.py). Arms    *)
(* are 0 and 1, and arm a's entry of p and of q_estimated is at a + 1.    *)
(* A probability of p and a number drawn by np.random.uniform are held in *)
(* hundredths; an estimate is a quotient of two integers. An entry of     *)
(* eps_list is <<"str", s>> for a string s and <<"float", e>> for a       *)
(* number of e hundredths.                                                *)

blackjack_vars == <<num_experiments, player_stick, i_exp, deck, hand_player,
                    hand_dealer, card_dealer, dealer_value, player_value,
                    usable_ace, state, num_hits, payoff, payoff_list,
                    simple_vars, es_tables, es_scratch>>

Str(s) == <<"str", s>>

Float(e) == <<"float", e>>

\* the values of p tried: the main block's [0.9, 0.8] and [0.1, 0.2]
PChoices == {<<90, 80>>, <<10, 20>>}

\* the values of eps_list tried
EpsListChoices ==
    {<<Float(10), Str("L-PI")>>, <<Str("$L_{R-P}$")>>, <<Str("$L_{R-I}$")>>}

\* the values np.random.uniform(0, 1) is taken to return
UniformChoices == {0, 50, 95}

Arms == {0, 1}

\* isinstance(eps, basestring)
IsString(eps) == eps[1] = "str"

\* eps == 'L-PI'
IsLPI(eps) == eps[1] = "str" /\ eps[2] = "L-PI"

\* alpha = 0.1
Alpha == <<1, 10>>

One == <<1, 1>>

Half == <<1, 2>>

FloatAdd(x, y) == Quotient(x[1] * y[2] + y[1] * x[2], x[2] * y[2])

FloatSub(x, y) == Quotient(x[1] * y[2] - y[1] * x[2], x[2] * y[2])

FloatMul(x, y) == Quotient(x[1] * y[1], x[2] * y[2])

\* np.mod(arm_idx+1, 2)
OtherArm(arm) == (arm + 1) % 2

\* p.argmax(): the first position of the maximum
ArgMax(probs) == IF probs[1] >= probs[2] THEN 0 ELSE 1

\* the complement taken of the estimate as it was before the raise
UpdateEstimate_stale_complement(q, arm) ==
    [k \in 1..2 |->
        IF k = arm + 1
        THEN FloatAdd(q[k], FloatMul(Alpha, FloatSub(One, q[k])))
        ELSE FloatSub(One, q[arm + 1])]

\* q_estimated[arm_idx] += alpha * (1.0 - q_estimated[arm_idx])
\* q_estimated[arm_other] = 1.0 - q_estimated[arm_idx]
UpdateEstimate(q, arm) ==
    LET raised ==
            FloatAdd(q[arm + 1], FloatMul(Alpha, FloatSub(One, q[arm + 1])))
    IN  [k \in 1..2 |-> IF k = arm + 1 THEN raised ELSE FloatSub(One, raised)]

\* optimal_action_flag.mean(axis=0)
MeanPerPlay(flags) ==
    [j \in 1..num_plays |-> Mean([i \in 1..num_bandits |-> flags[i][j]])]

InitBandit ==
    \E nb \in 1..MaxBandits, np \in 1..MaxPlays, probs \in PChoices,
       el \in EpsListChoices :
        /\ mode = "supervised_binary_bandit"
        /\ pc = "start"
        /\ num_bandits = nb
        /\ num_plays = np
        /\ p = probs
        /\ eps_list = el
        /\ arm_best = 0
        /\ opt_action = <<>>
        /\ eps_pos = 0
        /\ optimal_action_flag = <<>>
        /\ i_bandit = 0
        /\ j_play = 0
        /\ arm_idx = 0
        /\ q_estimated = <<>>
        /\ change_prob_flag = FALSE
        /\ num_experiments = 0
        /\ player_stick = 0
        /\ hand_player = <<>>
        /\ player_value = 0
        /\ dealer_value = 0
        /\ Blank

BanditStart ==
    /\ mode = "supervised_binary_bandit"
    /\ pc = "start"
    /\ arm_best' = ArgMax(p)
    /\ opt_action' = <<>>
    /\ eps_pos' = 0
    /\ pc' = "eps_loop"
    /\ UNCHANGED <<mode, blackjack_vars, num_bandits, num_plays, p, eps_list,
                   optimal_action_flag, i_bandit, j_play, arm_idx,
                   q_estimated, change_prob_flag>>

\* for eps in eps_list: optimal_action_flag = np.zeros(...)
BanditNextEps ==
    /\ mode = "supervised_binary_bandit"
    /\ pc = "eps_loop"
    /\ eps_pos < Len(eps_list)
    /\ eps_pos' = eps_pos + 1
    /\ optimal_action_flag' =
         [i \in 1..num_bandits |-> [j \in 1..num_plays |-> 0]]
    /\ i_bandit' = 0
    /\ pc' = "bandit_loop"
    /\ UNCHANGED <<mode, blackjack_vars, num_bandits, num_plays, p, eps_list,
                   arm_best, opt_action, j_play, arm_idx, q_estimated,
                   change_prob_flag>>

\* for i in range(num_bandits): a random arm, q_estimated = [0.5, 0.5]
BanditNextBandit ==
    /\ mode = "supervised_binary_bandit"
    /\ pc = "bandit_loop"
    /\ i_bandit < num_bandits
    /\ i_bandit' = i_bandit + 1
    /\ \E arm \in Arms : arm_idx' = arm
    /\ q_estimated' = <<Half, Half>>
    /\ j_play' = 0
    /\ pc' = "play_loop"
    /\ UNCHANGED <<mode, blackjack_vars, num_bandits, num_plays, p, eps_list,
                   arm_best, opt_action, eps_pos, optimal_action_flag,
                   change_prob_flag>>

\* lines 167-180 of a play: the arm played, its flag, change_prob_flag
BanditSelect ==
    /\ mode = "supervised_binary_bandit"
    /\ pc = "play_loop"
    /\ j_play < num_plays
    /\ j_play' = j_play + 1
    /\ LET eps == eps_list[eps_pos]
       IN  /\ \E rnd_num \in UniformChoices :
                IF ~IsString(eps) /\ rnd_num <= eps[2]
                THEN \E arm \in Arms : arm_idx' = arm
                ELSE IF IsString(eps)
                     THEN \E arm \in {a \in Arms : q_estimated[a + 1][1] > 0} :
                              arm_idx' = arm
                     ELSE arm_idx' = arm_idx
           /\ change_prob_flag' = IsString(eps)
    /\ optimal_action_flag' =
         IF arm_idx' = arm_best
         THEN [optimal_action_flag EXCEPT ![i_bandit][j_play + 1] = 1]
         ELSE optimal_action_flag
    /\ pc' = "outcome"
    /\ UNCHANGED <<mode, blackjack_vars, num_bandits, num_plays, p, eps_list,
                   arm_best, opt_action, eps_pos, i_bandit, q_estimated>>

\* lines 182-193 of a play: success or failure, and the update
BanditOutcome ==
    /\ mode = "supervised_binary_bandit"
    /\ pc = "outcome"
    /\ \E uniform \in UniformChoices :
        LET eps == eps_list[eps_pos]
            p_win == p[arm_idx + 1]
            failed == p_win < uniform
            arm == IF failed THEN OtherArm(arm_idx) ELSE arm_idx
            flag == IF failed /\ IsLPI(eps) THEN FALSE ELSE change_prob_flag
        IN  /\ arm_idx' = arm
            /\ change_prob_flag' = flag
            /\ q_estimated' =
                 IF flag THEN UpdateEstimate(q_estimated, arm)
                 ELSE q_estimated
    /\ pc' = "play_loop"
    /\ UNCHANGED <<mode, blackjack_vars, num_bandits, num_plays, p, eps_list,
                   arm_best, opt_action, eps_pos, optimal_action_flag,
                   i_bandit, j_play>>

BanditPlaysDone ==
    /\ mode = "supervised_binary_bandit"
    /\ pc = "play_loop"
    /\ ~(j_play < num_plays)
    /\ pc' = "bandit_loop"
    /\ UNCHANGED <<mode, blackjack_vars, bandit_vars>>

\* opt_action.append(optimal_action_flag.mean(axis=0).T)
BanditEpsDone ==
    /\ mode = "supervised_binary_bandit"
    /\ pc = "bandit_loop"
    /\ ~(i_bandit < num_bandits)
    /\ opt_action' = Append(opt_action, MeanPerPlay(optimal_action_flag))
    /\ pc' = "eps_loop"
    /\ UNCHANGED <<mode, blackjack_vars, num_bandits, num_plays, p, eps_list,
                   arm_best, eps_pos, optimal_action_flag, i_bandit, j_play,
                   arm_idx, q_estimated, change_prob_flag>>

BanditReturn ==
    /\ mode = "supervised_binary_bandit"
    /\ pc = "eps_loop"
    /\ ~(eps_pos < Len(eps_list))
    /\ pc' = "returned"
    /\ UNCHANGED <<mode, blackjack_vars, bandit_vars>>

NextBandit ==
    \/ BanditStart
    \/ BanditNextEps
    \/ BanditNextBandit
    \/ BanditSelect
    \/ BanditOutcome
    \/ BanditPlaysDone
    \/ BanditEpsDone
    \/ BanditReturn

SpecBandit == InitBandit /\ [][NextBandit]_vars

----------------------------------------------------------------------------
(* C1: get_payoff returns -1 whenever the player's total is over 21, also *)
(* when the dealer's is; +1 when the player's is at most 21 and the       *)
(* dealer's is over 21; otherwise -1, 0 or +1 as the player's total is    *)
(* less than, equal to or greater than the dealer's. The result is always *)
(* one of -1, 0, +1.                                                      *)
C1_Payoff ==
    (mode = "get_payoff" /\ pc = "returned") =>
        /\ payoff \in {-1, 0, 1}
        /\ player_value > 21 => payoff = -1
        /\ (player_value <= 21 /\ dealer_value > 21) => payoff = 1
        /\ (player_value <= 21 /\ dealer_value <= 21) =>
              /\ player_value < dealer_value => payoff = -1
              /\ player_value = dealer_value => payoff = 0
              /\ player_value > dealer_value => payoff = 1

\* both totals over 21: the player still loses
C1_Witness ==
    /\ mode = "get_payoff"
    /\ pc = "returned"
    /\ player_value = 22
    /\ dealer_value = 23
    /\ payoff = -1

----------------------------------------------------------------------------
(* C2: get_hand_value returns the sum of min(rank, 10) over the cards,    *)
(* plus 10 with usable_ace true exactly when the hand holds a card of     *)
(* rank 1 and that sum is at most 11; otherwise usable_ace is false and   *)
(* nothing is added. The total never gains more than 10, whatever the     *)
(* number of aces.                                                        *)
RankOf(c) == ((c - 1) % 13) + 1

\* the sum of min(rank, 10), rank by rank
NaiveSum(hand) ==
    LET Count(r) == Cardinality({j \in 1..Len(hand) : RankOf(hand[j]) = r})
        Worth(r) == IF r > 10 THEN 10 ELSE r
        RECURSIVE Upto(_)
        Upto(r) == IF r = 0 THEN 0 ELSE Count(r) * Worth(r) + Upto(r - 1)
    IN  Upto(13)

----------------------------------------------------------------------------
(* Operators the properties below are stated with. *)

Total(hand) == get_hand_value(hand)[1]

PlayerDraws == Len(hand_player) >= 2 /\ Len(hand_player') = Len(hand_player) + 1

DealerDraws == Len(hand_dealer) >= 2 /\ Len(hand_dealer') = Len(hand_dealer) + 1

PayoffComputed == pc = "dealer" /\ pc' # "dealer"

----------------------------------------------------------------------------
(* C3: in every episode of run_sequential, get_value_simple and           *)
(* get_value_exploring_starts the dealer draws a card only while its      *)
(* total is below min(17, the player's final total): the player draws no  *)
(* card once the dealer has drawn, the dealer never draws at a total of   *)
(* min(17, player's total) or more, and when the payoff is computed the   *)
(* dealer's total is at least min(17, player's total).                    *)
C3_DealerRule ==
    [][/\ DealerDraws =>
            /\ Total(hand_dealer) < Min(17, Total(hand_player))
            /\ hand_player' = hand_player
       /\ PlayerDraws => Len(hand_dealer) = 2
       /\ PayoffComputed =>
            Total(hand_dealer) >= Min(17, Total(hand_player))]_vars

\* the dealer drew and then stopped below 17, at or above the player's total
C3_Witness ==
    /\ mode = "get_value_exploring_starts"
    /\ pc = "credit"
    /\ Len(hand_dealer) >= 3
    /\ Total(hand_dealer) < 17
    /\ Total(hand_dealer) >= Total(hand_player)

----------------------------------------------------------------------------
(* C4, as claimed: the table get_value_simple returns never holds an      *)
(* entry whose player_value is below 12.                                  *)
C4_ReturnedTableFrom12 ==
    (mode = "get_value_simple" /\ pc = "returned") =>
        \A k \in DOMAIN value_dict : k[1] >= 12

----------------------------------------------------------------------------
----------------------------------------------------------------------------
(* C9: get_value_simple records one return per episode, credited to the   *)
(* episode's initial state (the player's first two cards and the dealer's *)
(* first card) only: after N episodes the lengths of all return lists sum *)
(* to N, and no other state's list grows.                                 *)
RECURSIVE TotalReturns(_)
TotalReturns(dict) ==
    IF DOMAIN dict = {} THEN 0
    ELSE LET k == CHOOSE x \in DOMAIN dict : TRUE
         IN  Len(dict[k])
               + TotalReturns([x \in DOMAIN dict \ {k} |-> dict[x]])

Returns(dict, k) == IF k \in DOMAIN dict THEN Len(dict[k]) ELSE 0

InitialState ==
    get_player_state(SubSeq(hand_player, 1, 2), hand_dealer[1])

C9_OneReturnPerEpisode ==
    [][/\ pc' \in {"loop", "returned"} => TotalReturns(value_dict') = i_exp'
       /\ pc' = "returned" => TotalReturns(value_dict') = num_experiments
       /\ \A k \in DOMAIN value_dict' :
            Returns(value_dict', k) # Returns(value_dict, k) =>
                /\ k = InitialState
                /\ Returns(value_dict', k) = Returns(value_dict, k) + 1
                /\ value_dict'[k][Len(value_dict'[k])] =
                      get_payoff(Total(hand_player), Total(hand_dealer))]_vars

\* two episodes from the same initial state, the second with a hit
C9_Witness ==
    /\ mode = "get_value_simple"
    /\ pc = "returned"
    /\ num_experiments = 2
    /\ Cardinality(DOMAIN value_dict) = 1
    /\ Len(hand_player) > 2

----------------------------------------------------------------------------
(* C10, as claimed: get_value_simple and get_value_exploring_starts do    *)
(* not return a table when the episode count is zero or negative.         *)
C10_NonPositiveRejected ==
    (/\ mode \in {"get_value_simple", "get_value_exploring_starts"}
     /\ num_experiments <= 0) => pc \notin {"returned", "averaged"}

----------------------------------------------------------------------------
(* Operators the exploring-starts properties are stated with. *)

ES == mode = "get_value_exploring_starts"

\* the state the credit loop is at
CreditedState == state[i_credit + 1]

\* a pass of the credit loop over a state that is not bust
Credits == ES /\ pc = "credit" /\ CreditedState[1] <= 21

\* the action the player took at position j of the trajectory: a hit at
\* every state but the last
ActionTaken(j) == IF j < Len(state) THEN 1 ELSE 0

----------------------------------------------------------------------------
(* C5: at every policy-improvement step of get_value_exploring_starts the *)
(* scan of the state's two action values for the maximum (max_action2)    *)
(* and the comparison Q(s, 0) >= Q(s, 1) (max_action1) agree, so the      *)
(* assertion "Check optimal action" never fails; the policy entry of the  *)
(* credited state becomes that action, a greedy one, and it is 0 (stick)  *)
(* when the two means are equal.                                          *)
C5_ImprovementAgrees ==
    [][/\ pc' # "assertion_error"
       /\ Credits =>
            LET s == CreditedState
                q0 == Q(Q_dict_average', s, 0)
                q1 == Q(Q_dict_average', s, 1)
            IN  /\ max_action1' = max_action2'
                /\ Policy(policy_dict', s) = max_action1'
                /\ \A a \in Actions :
                     FloatGE(Q(Q_dict_average', s, Policy(policy_dict', s)),
                             Q(Q_dict_average', s, a))
                /\ q0 = q1 =>
                     /\ max_action1' = 0
                     /\ max_action2' = 0
                     /\ Policy(policy_dict', s) = 0]_vars

\* the exploring start chose hit, the episode was a draw: the start state's
\* two means are equal and its policy entry has been set to stick
C5_Witness ==
    /\ ES
    /\ pc = "credit"
    /\ i_credit = 1
    /\ payoff = 0
    /\ Q(Q_dict_detailed, state[1], 1) = <<0>>
    /\ Q(Q_dict_average, state[1], 0) = Q(Q_dict_average, state[1], 1)
    /\ Policy(policy_dict, state[1]) = 0
    /\ max_action1 = 0
    /\ max_action2 = 0

----------------------------------------------------------------------------
(* C6: in get_value_exploring_starts a pass of the credit loop over a     *)
(* state that is not bust appends the episode's payoff to the list of     *)
(* exactly one pair, that state with its policy action, and a pass over a *)
(* bust state appends nothing; nothing is appended outside the credit     *)
(* loop; the loop passes once over every position of the trajectory,      *)
(* whose states are distinct. After the first episode each state of the   *)
(* trajectory that is not bust holds the payoff under the action taken    *)
(* there and every other list is empty. Every stored average is the mean  *)
(* of its list, and 0.0 where the list is empty: this is so of the tables *)
(* the function starts with and after every step that writes to them.     *)
C6_AppendsOne ==
    IF Credits
    THEN LET credited ==
                 KeySlot(<<CreditedState, Policy(policy_dict, CreditedState)>>)
         IN  \A j \in DOMAIN Q_dict_detailed :
                Q_dict_detailed'[j] =
                    IF j = credited THEN Append(Q_dict_detailed[j], payoff)
                    ELSE Q_dict_detailed[j]
    ELSE pc # "start" =>
            /\ Q_dict_detailed' = Q_dict_detailed
            /\ Q_dict_average' = Q_dict_average

C6_LoopCoversTrajectory ==
    /\ (pc # "credit" /\ pc' = "credit") =>
          /\ i_credit' = 0
          /\ payoff' = get_payoff(player_value, dealer_value)
          /\ Len(state') = num_hits' + 1
          /\ \A j, k \in 1..Len(state') : state'[j] = state'[k] => j = k
    /\ (pc = "credit" /\ pc' = "credit") =>
          i_credit' = i_credit + 1 /\ state' = state /\ payoff' = payoff
    /\ (pc = "credit" /\ pc' # "credit") => i_credit = num_hits

C6_FirstEpisode ==
    (pc = "loop" /\ i_exp = 1) =>
        LET taken == {KeySlot(<<state[j], ActionTaken(j)>>) :
                         j \in {j \in 1..Len(state) : state[j][1] <= 21}}
        IN  \A j \in DOMAIN Q_dict_detailed :
                Q_dict_detailed[j] = IF j \in taken THEN <<payoff>> ELSE <<>>

C6_Averages ==
    \A j \in DOMAIN Q_dict_detailed :
        IF Q_dict_detailed[j] = <<>> THEN Q_dict_average[j] = Zero
        ELSE /\ Q_dict_average[j][2] > 0
             /\ Q_dict_average[j][1] * Len(Q_dict_detailed[j]) =
                   Q_dict_average[j][2] * SumSeq(Q_dict_detailed[j])

\* a step that writes to one of the two Q tables
TablesWritten ==
    Q_dict_detailed' # Q_dict_detailed \/ Q_dict_average' # Q_dict_average

C6_CreditAssignment ==
    [][ES => /\ C6_AppendsOne
             /\ C6_LoopCoversTrajectory
             /\ C6_FirstEpisode'
             /\ TablesWritten => C6_Averages']_vars

\* the second episode ended bust: its bust state was passed over, and a
\* pair credited in both episodes holds two different returns
C6_Witness ==
    /\ ES
    /\ pc = "loop"
    /\ i_exp = 2
    /\ state[Len(state)][1] > 21
    /\ \E j \in DOMAIN Q_dict_detailed :
          /\ Len(Q_dict_detailed[j]) = 2
          /\ Q_dict_detailed[j][1] # Q_dict_detailed[j][2]
          /\ Q_dict_average[j] = Zero

----------------------------------------------------------------------------
(* C12: in get_value_exploring_starts the forced-hit loop never busts and *)
(* leaves a total of 12 to 21, so the start state is one of the 260 keys; *)
(* every state of the trajectory carries the dealer's first card, a rank  *)
(* 1 to 13, and a usable ace only with a total of at least 12; and every  *)
(* state of the trajectory that is not bust is a key of the policy table  *)
(* and, with either action, of the two Q tables.                          *)
IsKey(s) ==
    /\ s[1] \in 12..21
    /\ s[2] \in 1..NumRanks
    /\ s[3] \in BOOLEAN
    /\ StateSlot(s) \in DOMAIN policy_dict
    /\ \A a \in Actions :
          /\ KeySlot(<<s, a>>) \in DOMAIN Q_dict_detailed
          /\ KeySlot(<<s, a>>) \in DOMAIN Q_dict_average

C12_StatesAreKeys ==
    ES =>
      /\ pc = "forced" => player_value <= 21
      /\ pc \in {"player", "dealer", "credit"} =>
            /\ Len(state) >= 1
            /\ IsKey(state[1])
      /\ \A j \in 1..Len(state) :
            /\ state[j][2] = hand_dealer[1]
            /\ state[j][2] \in 1..NumRanks
            /\ state[j][3] => state[j][1] >= 12
            /\ state[j][1] <= 21 => IsKey(state[j])

\* a start state reached by a forced hit, with a usable ace
C12_Witness ==
    /\ ES
    /\ pc = "player"
    /\ Len(state) = 1
    /\ Len(hand_player) >= 3
    /\ state[1][3]
    /\ state[1][1] = 21

----------------------------------------------------------------------------
(* C13, as claimed: no call of hit finds the deck empty, whatever the     *)
(* shuffle and the threshold.                                             *)
C13_NeverEmptyDeck == pc # "index_error"

----------------------------------------------------------------------------
(* C14: between the episodes of get_value_exploring_starts (before the    *)
(* first, after each, and in the tables returned) the policy table is     *)
(* greedy: for each of the 260 states the entry is 0 (stick) if the       *)
(* average under stick is at least the average under hit, else 1 (hit).   *)
(* The value the exploring start wrote for the start state has been       *)
(* overwritten by then.                                                   *)
C14_GreedyBetweenEpisodes ==
    (ES /\ pc \in {"loop", "returned"}) =>
        /\ DOMAIN policy_dict = 1..Cardinality(States)
        /\ \A s \in States :
              LET stick == Q(Q_dict_average, s, 0)
                  hit_ == Q(Q_dict_average, s, 1)
              IN  Policy(policy_dict, s) =
                     IF stick[1] * hit_[2] >= hit_[1] * stick[2] THEN 0 ELSE 1

\* the exploring start wrote hit for the start state, the episode was lost,
\* and the entry is stick again
C14_Witness ==
    /\ ES
    /\ pc = "loop"
    /\ i_exp = 1
    /\ Len(state) >= 2
    /\ payoff = -1
    /\ Q(Q_dict_detailed, state[1], 1) = <<-1>>
    /\ Policy(policy_dict, state[1]) = 0

----------------------------------------------------------------------------
(* C15: in get_value_exploring_starts a pass of the credit loop over a    *)
(* state that is not bust appends the payoff under the action the player  *)
(* took in that state: hit (1) for a state followed by another draw,      *)
(* stick (0) for the last state of the trajectory. The policy entry read  *)
(* is that action, and the pass leaves the entries of the states later in *)
(* the trajectory as they are.                                            *)
C15_CreditedUnderActionTaken ==
    [][Credits =>
         LET taken == ActionTaken(i_credit + 1)
         IN  /\ Policy(policy_dict, CreditedState) = taken
             /\ Q(Q_dict_detailed', CreditedState, taken) =
                   Append(Q(Q_dict_detailed, CreditedState, taken), payoff)
             /\ Q(Q_dict_detailed', CreditedState, 1 - taken) =
                   Q(Q_dict_detailed, CreditedState, 1 - taken)
             /\ \A j \in (i_credit + 2)..Len(state) :
                   /\ state[j] # CreditedState
                   /\ state[j][1] <= 21 =>
                         Policy(policy_dict', state[j]) =
                            Policy(policy_dict, state[j])]_vars

\* the second episode hit twice: its second state, credited under stick
\* by the first episode, is now credited under hit
C15_Witness ==
    /\ ES
    /\ pc = "loop"
    /\ i_exp = 2
    /\ Len(state) >= 3
    /\ state[2][1] <= 21
    /\ Len(Q(Q_dict_detailed, state[1], 1)) >= 1
    /\ Len(Q(Q_dict_detailed, state[2], 0)) = 1
    /\ Q(Q_dict_detailed, state[2], 1) = <<payoff>>

----------------------------------------------------------------------------
(* Operators the supervised_binary_bandit properties are stated with. *)

Bandit == mode = "supervised_binary_bandit"

\* the second half of a play: arm_idx is the arm played, arm_idx' the arm
\* the play leaves, the other one exactly when the play failed
Outcome == Bandit /\ pc = "outcome" /\ pc' = "play_loop"

\* x + y = 1 for two quotients
SumToOne(x, y) == x[1] * y[2] + y[1] * x[2] = x[2] * y[2]

\* 0 <= x <= 1 for a quotient
IsProbability(x) == x[2] > 0 /\ 0 <= x[1] /\ x[1] <= x[2]

\* y = x + (1/10) * (1 - x) for two quotients
RaisedFrom(y, x) == 10 * y[1] * x[2] = (9 * x[1] + x[2]) * y[2]

----------------------------------------------------------------------------
(* C16, as claimed: with a string for eps, whenever a play changes the    *)
(* estimates, the estimate raised is that of the action played, which     *)
(* succeeded.                                                             *)
C16_ShiftsTowardSuccess ==
    [][(Outcome /\ q_estimated' # q_estimated) =>
          /\ arm_idx' = arm_idx
          /\ RaisedFrom(q_estimated'[arm_idx + 1], q_estimated[arm_idx + 1])]_vars

(* C16, amended: with a string for eps, a play changes the estimates      *)
(* unless it failed and eps is 'L-PI'; the estimate raised, by            *)
(* alpha * (1 - estimate), is that of the action played if the play       *)
(* succeeded and that of the other action if it failed, and the remaining *)
(* estimate is set to the complement. With a number for eps the estimates *)
(* stay as they are. The two estimates always sum to 1 and lie in [0, 1]. *)
C16_ShiftsTowardSupervisedAction ==
    [][Bandit =>
         /\ Outcome =>
              LET eps == eps_list[eps_pos]
                  failed == arm_idx' # arm_idx
                  target == arm_idx'
              IN  IF IsString(eps) /\ ~(failed /\ IsLPI(eps))
                  THEN /\ target = IF failed THEN 1 - arm_idx ELSE arm_idx
                       /\ RaisedFrom(q_estimated'[target + 1],
                                     q_estimated[target + 1])
                       /\ SumToOne(q_estimated'[target + 1],
                                   q_estimated'[2 - target])
                  ELSE q_estimated' = q_estimated
         /\ q_estimated' # <<>> =>
              /\ SumToOne(q_estimated'[1], q_estimated'[2])
              /\ IsProbability(q_estimated'[1])
              /\ IsProbability(q_estimated'[2])]_vars

\* the first play of a bandit played the better arm 0, which failed: the
\* estimate of arm 1 went from 0.5 to 0.55
C16_Witness ==
    /\ Bandit
    /\ pc = "play_loop"
    /\ IsString(eps_list[eps_pos])
    /\ i_bandit = 1
    /\ j_play = 1
    /\ arm_best = 0
    /\ optimal_action_flag[1][1] = 1
    /\ arm_idx = 1
    /\ q_estimated = <<<<9, 20>>, <<11, 20>>>>

====
